---- MODULE Spec2Model ----
(***************************************************************************)
(* Model of the product-catalog service of src/lib/wp.ts: the single-slot  *)
(* TTL cache (productsCache), the two service operations getProducts and   *)
(* getProductBySlug, and the product mapper they share.                    *)
(*                                                                         *)
(* Strings are sequences of tokens, each a record [k, src]: a URL is made  *)
(* of tokens such as "https://", "wp.example", "/"; an HTML string of      *)
(* text, whitespace, markup and <img> tokens.  JavaScript's null and       *)
(* undefined are the one-token strings Null and Undefined; an optional     *)
(* array or object is a sequence of length 0 (null) or 1.                  *)
(***************************************************************************)
EXTENDS Integers, Sequences, FiniteSets, TLC

\* ---------------------------------------------------------------- bounds
MaxCalls == 2
MaxLimit == 2
MaxTicks == 1

Calls == 1..MaxCalls
Limits == 1..MaxLimit

\* ------------------------------------------------------- JavaScript values
\* every token is a record [k, src]; src is the URL carried by an <img>
T(x) == [k |-> x, src |-> <<>>]

Null == <<T("~null")>>
Undefined == <<T("~undefined")>>
NotAString == <<T("~number")>>
Truthy(v) == v # Null /\ v # <<>>

Min(a, b) == IF a < b THEN a ELSE b

\* Array.prototype.slice(0, n) for n >= 0
Slice(s, n) == SubSeq(s, 1, Min(n, Len(s)))

\* ------------------------------------------------------------ HTML tokens
Txt == T("txt")
Olio == T("olio")
Oleo == T("oleo")
Dim == T("dim")
Ws == T("ws")
Tag == T("tag")
Img(s) == [k |-> "img", src |-> s]

IsMarkup(t) == t.k \in {"tag", "img"}

\* ----------------------------------------------------------- configuration
\* getEnvValue(keys): the first key with a defined value
RECURSIVE getEnvValue(_, _)
getEnvValue(env, keys) ==
  IF keys = <<>> THEN Undefined
  ELSE IF env[Head(keys)] # Undefined THEN env[Head(keys)]
       ELSE getEnvValue(env, Tail(keys))

\* String.prototype.replace(/\/$/, '')
StripTrailingSlash(s) ==
  IF s # <<>> /\ s[Len(s)] = T("/") THEN SubSeq(s, 1, Len(s) - 1) ELSE s

\* const baseUrl = (getEnvValue([...]) ?? '').replace(/\/$/, '') || ''
ResolveBaseUrl(env) ==
  LET raw == getEnvValue(env, <<"WP_API_BASE", "PUBLIC_WP_API_BASE">>)
  IN StripTrailingSlash(IF raw = Undefined THEN <<>> ELSE raw)

GoodBase == <<T("https://"), T("wp.example"), T("/wp-json")>>
SlashBase == GoodBase \o <<T("/")>>
NoSchemeBase == <<T("wp.example"), T("/wp-json")>>

EnvBaseValues == {Undefined, <<>>, <<T("/")>>, GoodBase, SlashBase, NoSchemeBase}
Envs ==
  [WP_API_BASE : EnvBaseValues, PUBLIC_WP_API_BASE : {Undefined, GoodBase}]

DEFAULT_CACHE_TTL_MS == 5 * 60 * 1000
TtlValues == {0, DEFAULT_CACHE_TTL_MS}

\* the clock advances in steps of the default TTL
TickMs == DEFAULT_CACHE_TTL_MS
MaxTime == MaxTicks * TickMs

\* ------------------------------------------------------- upstream client
\* new URL(s): a TypeError unless s is an absolute URL
HasScheme(s) == s # <<>> /\ s[1] \in {T("http://"), T("https://")}

ProductsPath == <<T("/wc/v3/products")>>

\* new URL(`${baseUrl}/wc/v3/products`) ... url.toString():
\* <<>> when the constructor throws, <<url>> otherwise
NewProductsUrl(base) ==
  IF HasScheme(base \o ProductsPath) THEN <<base \o ProductsPath>> ELSE <<>>

\* buildUrl(path): <<>> when it throws 'Missing WP_API_BASE'
buildUrl(base, path) ==
  IF ~Truthy(base) THEN <<>>
  ELSE IF HasScheme(path) THEN <<path>> ELSE <<base \o path>>

\* ------------------------------------------------------- field normalizer
\* stripTags: drop markup, collapse whitespace runs, trim
RECURSIVE CollapseWs(_)
CollapseWs(s) ==
  IF Len(s) < 2 THEN s
  ELSE IF s[1] = Ws /\ s[2] = Ws THEN CollapseWs(Tail(s))
       ELSE <<Head(s)>> \o CollapseWs(Tail(s))

RECURSIVE TrimLeft(_)
TrimLeft(s) == IF s # <<>> /\ Head(s) = Ws THEN TrimLeft(Tail(s)) ELSE s

RECURSIVE TrimRight(_)
TrimRight(s) ==
  IF s # <<>> /\ s[Len(s)] = Ws THEN TrimRight(SubSeq(s, 1, Len(s) - 1)) ELSE s

Trim(s) == TrimRight(TrimLeft(s))

RECURSIVE DropMarkup(_)
DropMarkup(s) ==
  IF s = <<>> THEN <<>>
  ELSE IF IsMarkup(Head(s)) THEN DropMarkup(Tail(s))
       ELSE <<Head(s)>> \o DropMarkup(Tail(s))

\* (value || '') on null/undefined/'' gives ''; callers check NotAString first
stripTags(value) ==
  IF ~Truthy(value) THEN <<>> ELSE Trim(CollapseWs(DropMarkup(value)))

\* normalizeMediumText: every standalone "olio" becomes "oleo" (accented)
normalizeMediumText(value) ==
  [i \in DOMAIN value |-> IF value[i] = Olio THEN Oleo ELSE value[i]]

\* normalizeImage: null for a missing/empty src, else http:// -> https://
normalizeImage(src) ==
  IF ~Truthy(src) THEN Null
  ELSE [i \in DOMAIN src |-> IF src[i] = T("http://") THEN T("https://") ELSE src[i]]

\* extractFirstImageSrc: src of the first <img> that carries a non-empty src
RECURSIVE FirstImgSrc(_)
FirstImgSrc(html) ==
  IF html = <<>> THEN Null
  ELSE IF Head(html).k = "img" /\ Head(html).src # <<>> THEN Head(html).src
       ELSE FirstImgSrc(Tail(html))

extractFirstImageSrc(html) ==
  IF ~Truthy(html) THEN Null ELSE normalizeImage(FirstImgSrc(html))

\* stripDimensionsFromTitle: remove the first dimension pattern; fall back
\* to the unchanged title when nothing else is left
RECURSIVE DropFirstDim(_)
DropFirstDim(s) ==
  IF s = <<>> THEN <<>>
  ELSE IF Head(s) = Dim THEN Tail(s)
       ELSE <<Head(s)>> \o DropFirstDim(Tail(s))

stripDimensionsFromTitle(title) ==
  LET cleaned == Trim(CollapseWs(DropFirstDim(title)))
  IN IF cleaned # <<>> THEN cleaned ELSE title

\* -------------------------------------------------------- product mapper
NoCard == [id |-> 0, title |-> <<>>, image |-> Null]

\* mapProduct(item): [tag |-> "throw"] when reading the item raises a
\* TypeError, [tag |-> "null"] for a title-less item, else the card
mapProduct(item) ==
  IF item.name = NotAString
  THEN [tag |-> "throw", card |-> NoCard]
  ELSE LET rawTitle == normalizeMediumText(stripTags(item.name))
           image == IF Truthy(normalizeImage(item.src))
                    THEN normalizeImage(item.src)
                    ELSE extractFirstImageSrc(item.description)
       IN IF rawTitle = <<>> THEN [tag |-> "null", card |-> NoCard]
          ELSE IF item.src = NotAString \/ item.description = NotAString
          THEN [tag |-> "throw", card |-> NoCard]
          ELSE [tag |-> "card",
                card |-> [id |-> item.id,
                          title |-> stripDimensionsFromTitle(rawTitle),
                          image |-> image]]

\* mutant: the filter only drops the items mapProduct rejected
KeepMappedAnyCard(m) == m.tag = "card"

\* the filter of getProducts: Boolean(item?.image)
KeepMapped(m) == m.tag = "card" /\ Truthy(m.card.image)

RECURSIVE MapAndFilter(_)
MapAndFilter(items) ==
  IF items = <<>> THEN <<>>
  ELSE LET m == mapProduct(Head(items))
       IN IF KeepMapped(m) THEN <<m.card>> \o MapAndFilter(Tail(items))
          ELSE MapAndFilter(Tail(items))

AnyThrows(items) == \E i \in DOMAIN items : mapProduct(items[i]).tag = "throw"

\* ------------------------------------------------------------- upstream
HttpUrl == <<T("http://"), T("cdn.example"), T("/a.jpg")>>
HttpsUrl == <<T("https://"), T("cdn.example"), T("/b.jpg")>>

\* raw records the upstream API can answer with (item.images?.[0]?.src is
\* the field src): with an image, with an <img> in the description only,
\* without any image, without a title, and one whose name is not a string
RawItems ==
  { [id |-> 1, name |-> <<Txt>>, src |-> HttpUrl, description |-> Null],
    [id |-> 2, name |-> <<Tag, Olio, Ws, Dim>>, src |-> Null,
     description |-> <<Txt, Img(<<>>), Img(HttpsUrl)>>],
    [id |-> 3, name |-> <<Txt, Ws, Ws, Txt>>, src |-> <<>>,
     description |-> <<Tag, Txt>>],
    [id |-> 4, name |-> <<Tag, Ws>>, src |-> HttpsUrl, description |-> Null],
    [id |-> 5, name |-> NotAString, src |-> Null, description |-> Null] }

\* the pages of at most n records the upstream can answer with: distinct
\* records in the requested order (order=desc, orderby=date; the ids stand
\* for the creation dates)
RECURSIVE Pages(_, _)
Pages(S, n) ==
  IF n = 0 THEN {<<>>}
  ELSE LET shorter == Pages(S, n - 1)
           Later(x) == {u \in shorter : /\ Len(u) = n - 1
                                        /\ \A i \in DOMAIN u : u[i].id > x.id}
       IN shorter \cup UNION {{<<x>> \o t : t \in Later(x)} : x \in S}

\* what `await res.json()` can give for a request of per_page = n: a parse
\* exception, a JSON value that is no array, or an array of at most n records
Bodies(n) ==
  {[kind |-> "parse-error", items |-> <<>>], [kind |-> "not-array", items |-> <<>>]}
    \cup {[kind |-> "array", items |-> its] : its \in Pages(RawItems, n)}

\* the try block of getProducts after the body arrived
ProductsFailed(body) == body.kind # "array" \/ AnyThrows(body.items)

\* what getProducts makes of a body: failed, or the cards it keeps
ProductsOutcome(body) ==
  [failed |-> ProductsFailed(body),
   products |-> IF ProductsFailed(body) THEN <<>> ELSE MapAndFilter(body.items)]

\* the outcomes of the bodies a request of per_page = n can get, tabulated
ProductsOutcomes == [n \in 0..(MaxLimit + 1) |-> {ProductsOutcome(b) : b \in Bodies(n)}]

\* items[0] mapped and checked: <<>> (null) or <<card>>
SlugResult(body) ==
  IF body.kind # "array" \/ body.items = <<>> THEN <<>>
  ELSE LET mapped == mapProduct(body.items[1])
       IN IF mapped.tag = "card" /\ Truthy(mapped.card.image)
          THEN <<mapped.card>> ELSE <<>>

\* the results of the bodies a request of per_page = 1 can get
SlugResults == {SlugResult(b) : b \in Bodies(1)}

\* mutant: a fixed page size is requested whatever the limit
PerPageFixed(limit) == MaxLimit + 1

\* url.searchParams.set('per_page', String(limit))
PerPage(limit) == limit

\* --------------------------------------------------------------- cache TTL
\* the digits of a numeric string and their value; -1 for any other token
DigitsValue(t) ==
  CASE t.k = "0" -> 0
    [] t.k = "5" -> 5
    [] t.k = "600000" -> 600000
    [] OTHER -> -1

IsDigits(t) == DigitsValue(t) >= 0

Minus == T("-")
InfinityWord == T("Infinity")

\* Number(s) of a string: surrounding whitespace is dropped, the empty
\* string is 0, 'Infinity' is infinite (val is its sign), an optionally
\* signed run of digits is its value and anything else is NaN
NumberOf(s) ==
  LET t == TrimRight(TrimLeft(s))
  IN IF t = <<>> THEN [kind |-> "num", val |-> 0]
     ELSE IF t = <<InfinityWord>> THEN [kind |-> "inf", val |-> 1]
     ELSE IF t = <<Minus, InfinityWord>> THEN [kind |-> "inf", val |-> -1]
     ELSE IF Len(t) = 1 /\ IsDigits(t[1])
          THEN [kind |-> "num", val |-> DigitsValue(t[1])]
     ELSE IF Len(t) = 2 /\ t[1] = Minus /\ IsDigits(t[2])
          THEN [kind |-> "num", val |-> 0 - DigitsValue(t[2])]
     ELSE [kind |-> "nan", val |-> 0]

\* Math.max(0, n)
Max0(n) == IF n < 0 THEN 0 ELSE n

\* mutant: the parsed value is used without the clamp
ResolveCacheTtlUnclamped(env) ==
  LET rawTtl == getEnvValue(env, <<"WP_CACHE_TTL_MS", "WP_CACHE_TTL">>)
  IN IF rawTtl = Undefined \/ rawTtl = <<>> THEN DEFAULT_CACHE_TTL_MS
     ELSE IF NumberOf(rawTtl).kind # "num" THEN DEFAULT_CACHE_TTL_MS
     ELSE NumberOf(rawTtl).val

\* const cacheTtlMs = (() => { ... })()
ResolveCacheTtl(env) ==
  LET rawTtl == getEnvValue(env, <<"WP_CACHE_TTL_MS", "WP_CACHE_TTL">>)
  IN IF rawTtl = Undefined \/ rawTtl = <<>> THEN DEFAULT_CACHE_TTL_MS
     ELSE IF NumberOf(rawTtl).kind # "num" THEN DEFAULT_CACHE_TTL_MS
     ELSE Max0(NumberOf(rawTtl).val)

\* values of WP_CACHE_TTL_MS: unset, '', ' ', 'abc', 'Infinity', '-5',
\* '0', '600000' and '600000' followed by a newline
TtlRawValues ==
  {Undefined, <<>>, <<Ws>>, <<Txt>>, <<InfinityWord>>, <<Minus, T("5")>>,
   <<T("0")>>, <<T("600000")>>, <<T("600000"), Ws>>}

TtlEnvs ==
  [WP_CACHE_TTL_MS : TtlRawValues,
   WP_CACHE_TTL : {Undefined, <<T("0")>>, <<T("600000")>>}]

\* the two TTL configurations the service is run under: the default and
\* a TTL of zero
CoreTtlEnvs ==
  {e \in TtlEnvs : e.WP_CACHE_TTL = Undefined
                     /\ e.WP_CACHE_TTL_MS \in {Undefined, <<T("0")>>}}

\* ---------------------------------------------------------------- state
VARIABLES
  ttlEnv,         \* the values of WP_CACHE_TTL_MS and WP_CACHE_TTL the
                  \* module was loaded with
  baseUrl,        \* const baseUrl
  cacheTtlMs,     \* const cacheTtlMs
  now,            \* Date.now()
  productsCache,  \* let productsCache: <<>> (null) or <<entry>>
  calls,          \* the invocations of the two service operations; beside
                  \* the locals (limit, stale) a getProducts call in flight
                  \* keeps the slot it saw when it started (seen); every
                  \* call keeps a history of what it did (fetched; wrote:
                  \* the items and limit it passed to setCache and the
                  \* expiry due; raced: the slot had changed since the
                  \* call started when its fetch failed) and how it ended
                  \* (outcome, via, result)
  writers,        \* history: the calls that ran setCache, in order
  buildUrlThrew   \* history: buildUrl has thrown 'Missing WP_API_BASE'

vars == <<ttlEnv, baseUrl, cacheTtlMs, now, productsCache, calls, writers, buildUrlThrew>>

IdleCall ==
  [op |-> "none", limit |-> 0, pc |-> "idle", seen |-> <<>>,
   stale |-> <<>>, outcome |-> "none", via |-> "none", result |-> <<>>,
   fetched |-> FALSE, wrote |-> <<>>, raced |-> FALSE]

Init ==
  /\ \E env \in Envs : baseUrl = ResolveBaseUrl(env)
  /\ ttlEnv \in CoreTtlEnvs
  /\ cacheTtlMs = ResolveCacheTtl(ttlEnv)
  /\ now = 0
  /\ productsCache = <<>>
  /\ calls = [c \in Calls |-> IdleCall]
  /\ writers = <<>>
  /\ buildUrlThrew = FALSE

\* -------------------------------------------------------- catalog cache
\* mutant: the slice stops one item short
getCachedProductsShort(limit) ==
  IF productsCache = <<>> THEN <<>>
  ELSE LET e == productsCache[1]
       IN IF e.limit < limit THEN <<>>
          ELSE IF cacheTtlMs > 0 /\ e.expiresAt > now
               THEN <<Slice(e.items, limit - 1)>>
               ELSE <<>>

\* mutant: the limit of the entry is not compared with the requested one
getCachedProductsAnyLimit(limit) ==
  IF productsCache = <<>> THEN <<>>
  ELSE LET e == productsCache[1]
       IN IF cacheTtlMs > 0 /\ e.expiresAt > now
          THEN <<Slice(e.items, limit)>>
          ELSE <<>>

getCachedProducts(limit) ==
  IF productsCache = <<>> THEN <<>>
  ELSE LET e == productsCache[1]
       IN IF e.limit < limit THEN <<>>
          ELSE IF cacheTtlMs > 0 /\ e.expiresAt > now
               THEN <<Slice(e.items, limit)>>
               ELSE <<>>

\* mutant: the stale read repeats the freshness check of the cached read
getStaleProductsFreshOnly(limit) ==
  IF productsCache = <<>> THEN <<>>
  ELSE IF productsCache[1].limit < limit THEN <<>>
       ELSE IF cacheTtlMs > 0 /\ productsCache[1].expiresAt > now
            THEN <<Slice(productsCache[1].items, limit)>>
            ELSE <<>>

getStaleProducts(limit) ==
  IF productsCache = <<>> THEN <<>>
  ELSE IF productsCache[1].limit < limit THEN <<>>
       ELSE <<Slice(productsCache[1].items, limit)>>

\* mutant: an entry stored under a larger limit is kept
setCacheKeepLarger(items, limit) ==
  IF productsCache # <<>> /\ productsCache[1].limit > limit THEN productsCache
  ELSE <<[items |-> items, limit |-> limit, expiresAt |-> now + cacheTtlMs]>>

\* the value setCache assigns to productsCache
setCache(items, limit) ==
  <<[items |-> items, limit |-> limit, expiresAt |-> now + cacheTtlMs]>>

\* stale ?? []
OrEmpty(stale) == IF stale = <<>> THEN <<>> ELSE stale[1]

\* mutant: the guard on the base URL is gone
BaseUrlNeverMissing == FALSE

\* if (!baseUrl) return ...
BaseUrlMissing == ~Truthy(baseUrl)

\* ------------------------------------------------------ catalog service
\* calls are numbered in the order they are made
CanStart(c) ==
  calls[c].pc = "idle" /\ (IF c = 1 THEN TRUE ELSE calls[c - 1].pc # "idle")

Finish(call, outcome, via, result) ==
  [call EXCEPT !.pc = "done", !.outcome = outcome, !.via = via, !.result = result,
               !.seen = <<>>, !.stale = <<>>]

\* getProducts(limit), from the call to its first await (or its return)
CallGetProducts(c, limit) ==
  /\ CanStart(c)
  /\ LET cached == getCachedProducts(limit)
         stale == getStaleProducts(limit)
         url == NewProductsUrl(baseUrl)
         built == IF url = <<>> THEN <<>> ELSE buildUrl(baseUrl, url[1])
         call == [IdleCall EXCEPT !.op = "products", !.limit = limit,
                                  !.seen = productsCache]
         missed == [call EXCEPT !.stale = stale]
     IN /\ calls' = [calls EXCEPT ![c] =
             IF BaseUrlMissing THEN Finish(call, "returned", "nobase", <<>>)
             ELSE IF cached # <<>> THEN Finish(call, "returned", "cache", cached[1])
             ELSE IF url = <<>> THEN Finish(missed, "threw", "urlerror", <<>>)
             ELSE IF built = <<>>
                  THEN Finish(missed, "returned", "fallback", OrEmpty(stale))
             ELSE [missed EXCEPT !.pc = "fetch", !.fetched = TRUE]]
        /\ buildUrlThrew' =
             (buildUrlThrew \/
                (~BaseUrlMissing /\ cached = <<>> /\ url # <<>> /\ built = <<>>))
  /\ UNCHANGED <<ttlEnv, baseUrl, cacheTtlMs, now, productsCache, writers>>

\* mutant: the fallback reads the slot again when the fetch has failed
StaleFallbackReread(call) == OrEmpty(getStaleProducts(call.limit))

\* `return stale ?? []` after a non-OK response and in the catch block:
\* stale is the local captured before the fetch was issued
StaleFallback(call) == OrEmpty(call.stale)

\* `await fetchFromWP(...)` of getProducts settles: an OK response, a
\* non-OK response, or a rejection
FetchResolves(c) ==
  /\ calls[c].op = "products" /\ calls[c].pc = "fetch"
  /\ \E r \in {"ok", "not-ok", "exception"} :
       calls' = [calls EXCEPT ![c] =
         IF r = "ok" THEN [@ EXCEPT !.pc = "json"]
         ELSE [Finish(@, "returned", "fallback", StaleFallback(@))
                 EXCEPT !.raced = (productsCache # calls[c].seen)]]
  /\ UNCHANGED <<ttlEnv, baseUrl, cacheTtlMs, now, productsCache, writers, buildUrlThrew>>

\* mutant: a failed refresh empties the slot
CacheClearedOnFailure(limit, o) ==
  IF o.failed THEN <<>> ELSE setCache(o.products, limit)

\* productsCache after `await res.json()` of getProducts(limit) settled
\* with outcome o
CacheAfterProducts(limit, o) ==
  IF o.failed THEN productsCache ELSE setCache(o.products, limit)

\* `await res.json()` of getProducts settles
JsonResolves(c) ==
  /\ calls[c].op = "products" /\ calls[c].pc = "json"
  /\ \E o \in ProductsOutcomes[PerPage(calls[c].limit)] :
       LET limit == calls[c].limit
       IN /\ productsCache' = CacheAfterProducts(limit, o)
          /\ IF o.failed
             THEN /\ calls' = [calls EXCEPT ![c] =
                       [Finish(@, "returned", "fallback", StaleFallback(@))
                          EXCEPT !.raced = (productsCache # calls[c].seen)]]
                  /\ writers' = writers
             ELSE /\ calls' = [calls EXCEPT ![c] =
                       [Finish(@, "returned", "fetched", o.products)
                          EXCEPT !.wrote = <<[items |-> o.products,
                                              limit |-> limit,
                                              expiresAt |-> now + cacheTtlMs]>>]]
                  /\ writers' = Append(writers, c)
  /\ UNCHANGED <<ttlEnv, baseUrl, cacheTtlMs, now, buildUrlThrew>>

\* getProductBySlug(slug), from the call to its first await (or its return)
CallGetProductBySlug(c) ==
  /\ CanStart(c)
  /\ LET url == NewProductsUrl(baseUrl)
         built == IF url = <<>> THEN <<>> ELSE buildUrl(baseUrl, url[1])
         call == [IdleCall EXCEPT !.op = "slug"]
     IN /\ calls' = [calls EXCEPT ![c] =
             IF BaseUrlMissing THEN Finish(call, "returned", "nobase", <<>>)
             ELSE IF url = <<>> THEN Finish(call, "threw", "urlerror", <<>>)
             ELSE IF built = <<>> THEN Finish(call, "returned", "failed", <<>>)
             ELSE [call EXCEPT !.pc = "fetch", !.fetched = TRUE]]
        /\ buildUrlThrew' =
             (buildUrlThrew \/ (~BaseUrlMissing /\ url # <<>> /\ built = <<>>))
  /\ UNCHANGED <<ttlEnv, baseUrl, cacheTtlMs, now, productsCache, writers>>

\* `await fetchFromWP(...)` of getProductBySlug settles
SlugFetchResolves(c) ==
  /\ calls[c].op = "slug" /\ calls[c].pc = "fetch"
  /\ \E r \in {"ok", "not-ok", "exception"} :
       calls' = [calls EXCEPT ![c] =
         IF r = "ok" THEN [@ EXCEPT !.pc = "json"]
         ELSE Finish(@, "returned", "failed", <<>>)]
  /\ UNCHANGED <<ttlEnv, baseUrl, cacheTtlMs, now, productsCache, writers, buildUrlThrew>>

\* `await res.json()` of getProductBySlug settles (per_page is '1')
SlugJsonResolves(c) ==
  /\ calls[c].op = "slug" /\ calls[c].pc = "json"
  /\ \E r \in SlugResults :
       calls' = [calls EXCEPT ![c] =
         Finish(@, "returned", IF r = <<>> THEN "failed" ELSE "fetched", r)]
  /\ UNCHANGED <<ttlEnv, baseUrl, cacheTtlMs, now, productsCache, writers, buildUrlThrew>>

\* time passes
Tick ==
  /\ now < MaxTime
  /\ now' = now + TickMs
  /\ UNCHANGED <<ttlEnv, baseUrl, cacheTtlMs, productsCache, calls, writers, buildUrlThrew>>

Next ==
  \/ \E c \in Calls, limit \in Limits : CallGetProducts(c, limit)
  \/ \E c \in Calls : FetchResolves(c)
  \/ \E c \in Calls : JsonResolves(c)
  \/ \E c \in Calls : CallGetProductBySlug(c)
  \/ \E c \in Calls : SlugFetchResolves(c)
  \/ \E c \in Calls : SlugJsonResolves(c)
  \/ Tick

Spec == Init /\ [][Next]_vars

\* module load under every TTL configuration, followed by callers
\* invoking the service while the upstream does not answer
TtlInit ==
  /\ \E env \in Envs : baseUrl = ResolveBaseUrl(env)
  /\ ttlEnv \in TtlEnvs
  /\ cacheTtlMs = ResolveCacheTtl(ttlEnv)
  /\ now = 0
  /\ productsCache = <<>>
  /\ calls = [c \in Calls |-> IdleCall]
  /\ writers = <<>>
  /\ buildUrlThrew = FALSE

TtlNext ==
  \/ \E c \in Calls, limit \in Limits : CallGetProducts(c, limit)
  \/ \E c \in Calls : CallGetProductBySlug(c)
  \/ Tick

TtlSpec == TtlInit /\ [][TtlNext]_vars

\* the service one tick after start: the slot is empty or holds the
\* cards of an earlier successful fetch (so the base URL is absolute),
\* written at time 0 or just now; callers invoke getProducts only and
\* the clock does not advance further
WarmInit ==
  /\ \E env \in Envs :
       /\ baseUrl = ResolveBaseUrl(env)
       /\ NewProductsUrl(baseUrl) # <<>>
  /\ ttlEnv \in CoreTtlEnvs
  /\ cacheTtlMs = ResolveCacheTtl(ttlEnv)
  /\ now = TickMs
  /\ \/ productsCache = <<>>
     \/ \E limit \in Limits, written \in {0, TickMs} :
          \E o \in {x \in ProductsOutcomes[PerPage(limit)] :
                      ~x.failed /\ x.products # <<>>} :
            productsCache = <<[items |-> o.products, limit |-> limit,
                               expiresAt |-> written + cacheTtlMs]>>
  /\ calls = [c \in Calls |-> IdleCall]
  /\ writers = <<>>
  /\ buildUrlThrew = FALSE

WarmNext ==
  \/ \E c \in Calls, limit \in Limits : CallGetProducts(c, limit)
  \/ \E c \in Calls : FetchResolves(c)
  \/ \E c \in Calls : JsonResolves(c)

WarmSpec == WarmInit /\ [][WarmNext]_vars

TypeOK ==
  /\ now \in 0..MaxTime
  /\ cacheTtlMs \in TtlValues
  /\ Len(productsCache) <= 1
  /\ Len(writers) <= MaxCalls

\* ------------------------------------------------------------ vocabulary
Products(c) == calls[c].op = "products"
Slug(c) == calls[c].op = "slug"
Done(c) == calls[c].pc = "done"
InFlight(c) == calls[c].pc \in {"fetch", "json"}
Entry(c) == calls[c].seen[1]

\* the entry a call in flight saw when it started can serve its limit
Servable(c) == calls[c].seen # <<>> /\ Entry(c).limit >= calls[c].limit

\* the step in which call c of getProducts is made
StartsProducts(c) == calls[c].pc = "idle" /\ calls'[c].op = "products"

\* the step in which call c of getProducts returns after a failed fetch
FallsBack(c) == Products(c) /\ InFlight(c) /\ calls'[c].via = "fallback"

\* ---------------------------------------------------------------- C1
\* C1: getProducts never fails: whatever the configuration, the cache and
\* the upstream outcome, a call ends by returning a sequence of cards and
\* never lets an exception reach its caller.
C1_NeverThrows ==
  \A c \in Calls : Products(c) /\ Done(c) => calls[c].outcome = "returned"

\* ---------------------------------------------------------------- C2
\* C2: a getProducts(L) call whose fetch fails (non-OK response or an
\* exception) returns the first L items of the entry that was cached when
\* it started, provided that entry's limit covers L, and empty otherwise;
\* when the entry was written by a successful getProducts(L), that is the
\* very sequence the earlier call returned.
C2_StaleFallback ==
  [][\A c \in Calls :
       FallsBack(c) =>
         /\ calls'[c].outcome = "returned"
         /\ calls'[c].result =
              IF Servable(c) THEN Slice(Entry(c).items, calls[c].limit) ELSE <<>>
         /\ \A w \in Calls :
              /\ calls[w].wrote # <<>>
              /\ calls[w].wrote = calls[c].seen
              /\ calls[w].limit = calls[c].limit
              => calls'[c].result = calls[w].result]_vars

C2_Witness ==
  \E c, w \in Calls :
    /\ c # w
    /\ Products(c) /\ Done(c) /\ calls[c].via = "fallback"
    /\ calls[w].wrote # <<>> /\ productsCache = calls[w].wrote
    /\ calls[w].limit = calls[c].limit
    /\ calls[c].result # <<>>
    /\ calls[c].result = calls[w].result

\* ---------------------------------------------------------------- C3
\* C3: when getProducts(L) is called again after a getProducts(L) that
\* fetched successfully, the slot is as that call left it, the TTL is
\* positive and the entry has not expired, the new call returns the same
\* sequence from the cache and issues no fetch.
C3_CacheIdempotence ==
  [][\A a, c \in Calls :
       /\ StartsProducts(c)
       /\ Products(a) /\ Done(a) /\ calls[a].via = "fetched"
       /\ calls[a].limit = calls'[c].limit
       /\ productsCache = calls[a].wrote
       /\ cacheTtlMs > 0 /\ now < productsCache[1].expiresAt
       => /\ calls'[c].via = "cache"
          /\ calls'[c].outcome = "returned"
          /\ ~calls'[c].fetched
          /\ calls'[c].result = calls[a].result]_vars

C3_Witness ==
  \E a, c \in Calls :
    /\ a # c /\ Products(a) /\ Products(c) /\ Done(a) /\ Done(c)
    /\ calls[a].via = "fetched" /\ calls[a].fetched
    /\ calls[c].via = "cache" /\ ~calls[c].fetched
    /\ productsCache = calls[a].wrote
    /\ calls[c].limit = calls[a].limit
    /\ calls[c].result = calls[a].result
    /\ Len(calls[c].result) = calls[c].limit

\* ---------------------------------------------------------------- C4
\* C4: a getProducts(limit) call that finds an entry stored under a smaller
\* limit is served from it neither as a hit nor as a stale fallback and
\* fetches; a call answered from the cache, and a stale snapshot, come from
\* an entry with cachedLimit >= limit and are its first limit items.
C4_LimitCheck ==
  /\ [][\A c \in Calls :
          StartsProducts(c) =>
            /\ (productsCache # <<>> /\ productsCache[1].limit < calls'[c].limit) =>
                 /\ calls'[c].pc = "fetch"
                 /\ calls'[c].fetched
                 /\ calls'[c].stale = <<>>
            /\ calls'[c].via = "cache" =>
                 /\ productsCache # <<>>
                 /\ productsCache[1].limit >= calls'[c].limit
                 /\ calls'[c].result =
                      Slice(productsCache[1].items, calls'[c].limit)
            /\ calls'[c].stale # <<>> =>
                 /\ productsCache # <<>>
                 /\ productsCache[1].limit >= calls'[c].limit
                 /\ calls'[c].stale[1] =
                      Slice(productsCache[1].items, calls'[c].limit)]_vars
  /\ [][\A c \in Calls :
          (FallsBack(c) /\ ~Servable(c)) => calls'[c].result = <<>>]_vars

\* a call found an entry with items stored under a smaller limit and is
\* fetching, without a stale snapshot
C4_Witness ==
  \E c \in Calls :
    /\ Products(c) /\ calls[c].pc = "fetch" /\ calls[c].fetched
    /\ calls[c].seen # <<>> /\ Entry(c).limit < calls[c].limit
    /\ Entry(c).items # <<>>
    /\ calls[c].stale = <<>>

\* ---------------------------------------------------------------- C5
\* C5: getProducts answers from the cache without fetching only while the
\* TTL is positive and now < expiresAt of the entry; with a TTL of zero
\* every call made with a base URL configured issues a fetch, and the entry
\* of the last successful fetch is still what a failed fetch falls back to.
C5_FreshnessRule ==
  /\ [][\A c \in Calls :
          (FallsBack(c) /\ cacheTtlMs = 0 /\ Servable(c)) =>
            calls'[c].result = Slice(Entry(c).items, calls[c].limit)]_vars
  /\ [][\A c \in Calls :
          StartsProducts(c) =>
            /\ calls'[c].via = "cache" =>
                 /\ cacheTtlMs > 0
                 /\ productsCache # <<>>
                 /\ now < productsCache[1].expiresAt
            /\ (cacheTtlMs = 0 /\ Truthy(baseUrl)) => calls'[c].fetched]_vars

\* ---------------------------------------------------------------- C6
\* C6: every getProducts call that misses the cache and goes on to the
\* upstream issues a fetch of its own, however many are in flight, and the
\* slot always holds exactly the entry (items, limit, expiry) of the
\* successful call that completed last, whatever the order in which the
\* calls started and whatever their limits.
C6_LastWriterWins ==
  /\ \A c \in Calls :
       Products(c) /\ calls[c].via \in {"none", "fetched", "fallback"} =>
         calls[c].fetched
  /\ productsCache =
       IF writers = <<>> THEN <<>> ELSE calls[writers[Len(writers)]].wrote

\* two calls overlapped, both fetched successfully, and the one made first
\* completed last, under a smaller limit than the other's
C6_Witness ==
  \E a, b \in Calls :
    /\ a < b /\ Len(writers) >= 2
    /\ writers[Len(writers)] = a /\ writers[Len(writers) - 1] = b
    /\ calls[a].limit < calls[b].limit
    /\ calls[a].wrote # calls[b].wrote
    /\ productsCache = calls[a].wrote

\* ---------------------------------------------------------------- C7
\* C7: every card in the cache slot, in a stale snapshot and in any result
\* of getProducts or getProductBySlug has a present image: items without a
\* resolvable image and items mapProduct rejects are excluded.
HasImage(card) == card.image # Null /\ card.image # <<>>

C7_NoImagelessCard ==
  /\ productsCache # <<>> =>
       \A i \in DOMAIN productsCache[1].items : HasImage(productsCache[1].items[i])
  /\ \A c \in Calls :
       /\ \A i \in DOMAIN calls[c].result : HasImage(calls[c].result[i])
       /\ calls[c].stale # <<>> =>
            \A i \in DOMAIN calls[c].stale[1] : HasImage(calls[c].stale[1][i])

\* cards came back from a fetch (one with its image taken from the
\* description) and then from the cache, a stale snapshot or by slug
C7_Witness ==
  \E c, d \in Calls :
    /\ Products(c) /\ calls[c].via = "fetched"
    /\ \E i \in DOMAIN calls[c].result : calls[c].result[i].id = 2
    /\ productsCache = calls[c].wrote
    /\ d # c /\ Done(d) /\ calls[d].result # <<>>

\* ---------------------------------------------------------------- C8
\* C8: buildUrl never throws 'Missing WP_API_BASE': without a base URL
\* getProducts returns an empty sequence and getProductBySlug returns
\* absent before any request is built or issued.
C8_ConfigErrorUnreachable ==
  /\ ~buildUrlThrew
  /\ \A c \in Calls :
       (calls[c].pc # "idle" /\ (baseUrl = <<>> \/ baseUrl = Null)) =>
         /\ Done(c)
         /\ calls[c].outcome = "returned"
         /\ calls[c].via = "nobase"
         /\ calls[c].result = <<>>
         /\ ~calls[c].fetched

C8_Witness ==
  /\ baseUrl = <<>>
  /\ \E c, d \in Calls :
       /\ Products(c) /\ Done(c) /\ calls[c].result = <<>>
       /\ Slug(d) /\ Done(d) /\ calls[d].result = <<>>

\* ---------------------------------------------------------------- C9
\* C9: the slot changes only in the step in which a getProducts fetch
\* completes successfully; early returns, cache hits, failed fetches and
\* every getProductBySlug call leave it unchanged.
C9_SlotFrame ==
  [][productsCache' # productsCache =>
       \E c \in Calls :
         /\ Products(c) /\ calls[c].pc = "json"
         /\ calls'[c].via = "fetched"]_vars

\* with an entry in the slot, a later call (a failed or cached getProducts,
\* or a getProductBySlug) has completed and the entry is still the one
\* the successful fetch wrote
C9_Witness ==
  \E w, c \in Calls :
    /\ w < c /\ writers = <<w>>
    /\ productsCache # <<>> /\ productsCache = calls[w].wrote
    /\ Done(c) /\ calls[c].via \in {"fallback", "cache", "fetched", "failed"}
    /\ calls[c].fetched \/ calls[c].via = "cache"

\* --------------------------------------------------------------- C10
\* C10: the entry in the slot never holds more cards than the limit it was
\* stored under.
C10_ItemsWithinLimit ==
  productsCache # <<>> => Len(productsCache[1].items) <= productsCache[1].limit

C10_Witness ==
  /\ productsCache # <<>>
  /\ productsCache[1].limit > 1
  /\ Len(productsCache[1].items) = productsCache[1].limit

\* --------------------------------------------------------------- C11
\* the first defined of WP_CACHE_TTL_MS and WP_CACHE_TTL
FirstDefinedTtl ==
  IF ttlEnv.WP_CACHE_TTL_MS # Undefined
  THEN ttlEnv.WP_CACHE_TTL_MS ELSE ttlEnv.WP_CACHE_TTL

NeitherDefined ==
  ttlEnv.WP_CACHE_TTL_MS = Undefined /\ ttlEnv.WP_CACHE_TTL = Undefined

\* the TTL a value parsed as n resolves to
TtlOfParsed(n) ==
  IF n.kind # "num" THEN DEFAULT_CACHE_TTL_MS
  ELSE IF n.val < 0 THEN 0 ELSE n.val

\* C11 as stated: the TTL is resolved at startup from WP_CACHE_TTL_MS, then
\* WP_CACHE_TTL: 300000 when neither is defined or the value is non-finite
\* or does not parse as a number, zero when the parsed value is negative,
\* the parsed value otherwise; it is >= 0 and never changes.
C11_TtlResolution ==
  /\ [](/\ cacheTtlMs >= 0
        /\ cacheTtlMs = IF NeitherDefined THEN DEFAULT_CACHE_TTL_MS
                        ELSE TtlOfParsed(NumberOf(FirstDefinedTtl)))
  /\ [][cacheTtlMs' = cacheTtlMs]_vars

\* C11 amended: the TTL is also 300000 when the first defined of the two
\* values is the empty string (which Number() would parse as 0); otherwise
\* as stated: 300000 when neither is defined or the value parses to NaN or
\* an infinity, zero when it parses to a negative number, the parsed value
\* otherwise; it is >= 0 and never changes.
C11_TtlResolutionAmended ==
  /\ [](/\ cacheTtlMs >= 0
        /\ cacheTtlMs = IF NeitherDefined \/ FirstDefinedTtl = <<>>
                        THEN DEFAULT_CACHE_TTL_MS
                        ELSE TtlOfParsed(NumberOf(FirstDefinedTtl)))
  /\ [][cacheTtlMs' = cacheTtlMs]_vars

\* loaded with WP_CACHE_TTL_MS = '-5' (and WP_CACHE_TTL = '600000' ignored)
\* the TTL is zero, and still is after the service has been called and
\* time has passed
C11_Witness ==
  /\ ttlEnv.WP_CACHE_TTL_MS = <<Minus, T("5")>>
  /\ ttlEnv.WP_CACHE_TTL = <<T("600000")>>
  /\ cacheTtlMs = 0
  /\ now > 0
  /\ \E c \in Calls : calls[c].pc # "idle"

\* --------------------------------------------------------------- C12
\* what getStaleProducts(limit) gave call c when it started
SnapshotAtCapture(c) ==
  IF Servable(c) THEN <<Slice(Entry(c).items, calls[c].limit)>> ELSE <<>>

\* C12: the stale fallback of a getProducts(limit) call is the snapshot of
\* the slot taken before the call's fetch was issued: while the fetch is in
\* flight the snapshot stays the first limit items of the entry present at
\* capture (none if there was no entry with a sufficient limit), and a
\* failed fetch returns it (or empty), even when another call has replaced
\* or first populated the slot in the meantime.
C12_StaleSnapshot ==
  /\ [](\A c \in Calls :
          Products(c) /\ InFlight(c) => calls[c].stale = SnapshotAtCapture(c))
  /\ [][\A c \in Calls :
          FallsBack(c) =>
            /\ calls'[c].result =
                 IF SnapshotAtCapture(c) = <<>> THEN <<>>
                 ELSE SnapshotAtCapture(c)[1]
            /\ calls'[c].raced = (productsCache # calls[c].seen)]_vars

\* a call's fetch failed after another call had replaced the entry it
\* captured: it returned cards, and they are not the first limit items
\* of the entry now in the slot, which could have served its limit
C12_Witness ==
  \E c, b \in Calls :
    /\ c # b
    /\ Products(c) /\ Done(c) /\ calls[c].via = "fallback" /\ calls[c].raced
    /\ calls[c].result # <<>>
    /\ Products(b) /\ calls[b].via = "fetched" /\ productsCache = calls[b].wrote
    /\ productsCache[1].limit >= calls[c].limit
    /\ Slice(productsCache[1].items, calls[c].limit) # calls[c].result

====
